---- MODULE Spec2Model ----
(***************************************************************************)
(* bevy_tween: plugin wiring (src/src/lib.rs) and the interpolation        *)
(* sampler (src/src/interpolation.rs).                                     *)
(*                                                                         *)
(* f32 values are fixed point in millionths (1.0 is One) and are tagged:   *)
(* <<"num", x>> is the number x/One, <<"nan", 0>> is NaN.  An absent       *)
(* component is <<"none", 0>>.                                             *)
(***************************************************************************)
EXTENDS Integers, Sequences, FiniteSets, TLC

\* ------------------------------------------------------------------ bounds
\* Mutations of the world (inserts, removals, despawns) along one behaviour.
MaxOps == 4
\* Runs of the tween schedule along one behaviour.
MaxTicks == 2

\* ------------------------------------------------------------------ values
Num(x) == <<"num", x>>
NaN == <<"nan", 0>>
None == <<"none", 0>>

\* The f32 1.0 and 0.5 in fixed point.
One == 1000 * 1000
Half == One \div 2

is_nan(v) == v[1] = "nan"

\* a * b of two fixed point numbers, rounded down; the factors are split in
\* thousands so that no intermediate product leaves the 32 bit integers.
mul(a, b) ==
    LET ah == a \div 1000
        al == a % 1000
        bh == b \div 1000
        bl == b % 1000
    IN  (ah * bh) + (((ah * bl) + (al * bh) + ((al * bl) \div 1000)) \div 1000)

\* The Progress handed on as it is, without the clamp.
clamp01_identity(v) == v

\* f32::clamp(0., 1.) on a number that is not NaN.
clamp01(v) ==
    IF v[2] < 0 THEN Num(0) ELSE IF v[2] > One THEN Num(One) ELSE v

Units == {"u1", "u2"}
\* now_percentage values a tweener may publish: NaN, below 0, inside, above 1.
ProgressValues == {NaN, Num(-Half), Num(Half), Num(One + Half)}
EaseFunctions == {"Linear", "QuadraticIn"}
EaseClosures == {"nan", "double"}

Samplers == {"EaseFunction", "EaseClosure"}
Schedules == {"PostUpdate", "FixedUpdate"}
ApplySystems == {"component_tween_system", "resource_tween_system"}

\* sample_interpolations_system::<I> as a system name.
SamplerSystem(I) == "sample_interpolations_system_" \o I

VARIABLES
    app,        \* the App being wired: resource, configured sets, systems
    call,       \* the last wiring call and the App it was made on
    running,    \* TRUE while the tween schedule runs (inside a tick)
    ran,        \* systems that have run in the current tick
    alive,      \* unit -> the entity exists
    progress,   \* unit -> TweenProgress.now_percentage, or None
    easeFn,     \* unit -> EaseFunction variant, or "None"
    easeCl,     \* unit -> EaseClosure, or "None"
    value,      \* unit -> TweenInterpolationValue, or None
    chgP,       \* sampler -> units whose TweenProgress changed since it ran
    chgI,       \* sampler -> units whose curve changed since it ran
    removedEv,  \* sampler -> unread RemovedComponents<TweenProgress> events
    queue,      \* sampler -> its Commands not yet applied
    dirty,      \* sampler -> units changed when it ran in this tick
    calls,      \* sampler -> curve invocations <<unit, arg, result>> in this tick
    issued,     \* sampler -> the commands it queued in this tick
    fresh,      \* units whose value was written (inserted) in this tick
    dropped,    \* units whose value was removed in this tick
    lastFlushed,\* the sampler whose commands were applied last, or "None"
    seen,       \* unit -> the value the ApplyTween system read in this tick
    prev,       \* unit -> the value the unit had when this tick began
    probe,      \* a curve sampled on its own: variant, argument, result
    timer,      \* the span tweener's timer: elapsed, direction, repeats done
    readEv,     \* sampler -> the removal events it read in this tick
    ops,        \* world mutations so far
    ticks       \* schedule runs so far

wiringVars == <<app, call>>
worldVars == <<alive, progress, easeFn, easeCl, value, chgP, chgI, removedEv>>
tickVars == <<running, ran, queue, dirty, calls, issued, fresh, dropped,
              lastFlushed, seen, prev, readEv>>
vars == <<app, call, running, ran, alive, progress, easeFn, easeCl, value,
          chgP, chgI, removedEv, queue, dirty, calls, issued, fresh, dropped,
          lastFlushed, seen, prev, ops, ticks, timer, readEv, probe>>

\* ------------------------------------------------------------------ wiring
\* App::new(): no TweenAppResource, no configured set, no system.
EmptyApp ==
    [resource |-> "None",
     sets |-> [s \in Schedules |-> <<>>],
     systems |-> {},
     types |-> {},
     panicked |-> FALSE]

\* The chain with the last two sets exchanged.
TweenSystemSetChain_apply_first ==
    <<"TickTweener", "Tweener", "ApplyTween", "UpdateInterpolationValue">>

\* The tuple handed to configure_sets(...).chain().
TweenSystemSetChain ==
    <<"TickTweener", "Tweener", "UpdateInterpolationValue", "ApplyTween">>

\* The build without the configure_sets call: the sets stay unordered.
TweenCorePlugin_build_unordered(a, schedule) ==
    [a EXCEPT !.resource = schedule,
              !.types = @ \cup {"TweenTimer", "AnimationDirection", "Repeat",
                                "RepeatStyle", "TweenProgress", "TweenerMarker",
                                "TweenInterpolationValue"}]

\* TweenCorePlugin { app_resource }.build(app)
TweenCorePlugin_build(a, schedule) ==
    [a EXCEPT !.sets[schedule] = TweenSystemSetChain,
              !.resource = schedule,
              !.types = @ \cup {"TweenTimer", "AnimationDirection", "Repeat",
                                "RepeatStyle", "TweenProgress", "TweenerMarker",
                                "TweenInterpolationValue"}]

\* The build falling back to the default schedule when the resource is missing.
EaseFunctionPlugin_build_or_default(a) ==
    LET schedule == IF a.resource = "None" THEN "PostUpdate" ELSE a.resource
    IN  [a EXCEPT !.systems = @ \cup {<<schedule, "UpdateInterpolationValue",
                                        SamplerSystem("EaseFunction")>>},
                  !.types = @ \cup {"EaseFunction"}]

\* EaseFunctionPlugin.build(app)
EaseFunctionPlugin_build(a) ==
    IF a.resource = "None"
    THEN [a EXCEPT !.panicked = TRUE]
    ELSE [a EXCEPT !.systems = @ \cup {<<a.resource, "UpdateInterpolationValue",
                                         SamplerSystem("EaseFunction")>>},
                   !.types = @ \cup {"EaseFunction"}]

\* EaseClosurePlugin.build(app)
EaseClosurePlugin_build(a) ==
    IF a.resource = "None"
    THEN [a EXCEPT !.panicked = TRUE]
    ELSE [a EXCEPT !.systems = @ \cup {<<a.resource, "UpdateInterpolationValue",
                                         SamplerSystem("EaseClosure")>>}]

\* The systems added to PostUpdate whatever schedule the resource names.
add_tween_systems_post_update(a, system) ==
    IF a.resource = "None"
    THEN [a EXCEPT !.panicked = TRUE]
    ELSE [a EXCEPT !.systems = @ \cup {<<"PostUpdate", "ApplyTween", system>>}]

\* App::add_tween_systems(tween_systems)
add_tween_systems(a, system) ==
    IF a.resource = "None"
    THEN [a EXCEPT !.panicked = TRUE]
    ELSE [a EXCEPT !.systems = @ \cup {<<a.resource, "ApplyTween", system>>}]

\* span_tween::SpanTweenPlugin.build(app): the systems TweenSystemSet documents
\* for the sets TickTweener and Tweener.
SpanTweenPlugin_build(a) ==
    IF a.resource = "None"
    THEN [a EXCEPT !.panicked = TRUE]
    ELSE [a EXCEPT !.systems = @ \cup
            {<<a.resource, "TickTweener", "tick_span_tweener_system">>,
             <<a.resource, "Tweener", "span_tweener_system">>}]

\* TweenAppResource::default(): schedule PostUpdate.
TweenAppResource_default == "PostUpdate"

\* interpolate::DefaultInterpolatorsPlugin, DefaultDynInterpolatorsPlugin and
\* tween::DefaultTweenEventsPlugin register their systems through
\* add_tween_systems.
DefaultInterpolatorsPlugin_build(a) ==
    add_tween_systems(a, "component_tween_system")

DefaultDynInterpolatorsPlugin_build(a) ==
    add_tween_systems(a, "component_dyn_tween_system")

DefaultTweenEventsPlugin_build(a) ==
    add_tween_systems(a, "tween_event_system")

\* Plugin::build of the plugin `name` of the crate.
Plugin_build(a, name) ==
    CASE name = "TweenCorePlugin" ->
            TweenCorePlugin_build(a, TweenAppResource_default)
      [] name = "DefaultInterpolatorsPlugin" ->
            DefaultInterpolatorsPlugin_build(a)
      [] name = "DefaultDynInterpolatorsPlugin" ->
            DefaultDynInterpolatorsPlugin_build(a)
      [] name = "EaseFunctionPlugin" -> EaseFunctionPlugin_build(a)
      [] name = "DefaultTweenEventsPlugin" -> DefaultTweenEventsPlugin_build(a)
      [] name = "SpanTweenPlugin" -> SpanTweenPlugin_build(a)

\* The group with EaseFunctionPlugin added ahead of TweenCorePlugin.
DefaultTweenPlugins_build_ease_first ==
    <<"EaseFunctionPlugin", "TweenCorePlugin", "DefaultInterpolatorsPlugin",
      "DefaultDynInterpolatorsPlugin", "DefaultTweenEventsPlugin",
      "SpanTweenPlugin">>

\* DefaultTweenPlugins.build(): the plugins in the order they are added to
\* the PluginGroupBuilder.
DefaultTweenPlugins_build ==
    <<"TweenCorePlugin", "DefaultInterpolatorsPlugin",
      "DefaultDynInterpolatorsPlugin", "EaseFunctionPlugin",
      "DefaultTweenEventsPlugin", "SpanTweenPlugin">>

\* App::add_plugins(group): the plugins are built in the group's order; a
\* panic ends the wiring.
RECURSIVE add_plugins(_, _)
add_plugins(a, plugins) ==
    IF plugins = <<>> \/ a.panicked THEN a
    ELSE add_plugins(Plugin_build(a, Head(plugins)), Tail(plugins))

Registered(a, system) == \E r \in a.systems : r[3] = system

CallRecord(op) == [op |-> op, before |-> app]
NoCall == [op |-> "None", before |-> EmptyApp]


\* ------------------------------------------------------------- the curves
\* ease_functions::linear
linear(v) == v

\* ease_functions::quadratic_in
quadratic_in(v) == Num(mul(v[2], v[2]))

\* f32::powi(p, n).
RECURSIVE powi(_, _)
powi(p, n) == IF n = 0 THEN One ELSE mul(p, powi(p, n - 1))

\* sin(k * PI / 2) for a whole number k of quarter turns.
sin_quarter(k) ==
    CASE k % 4 = 0 -> 0
      [] k % 4 = 1 -> One
      [] k % 4 = 2 -> 0
      [] k % 4 = 3 -> 0 - One

\* f32::sin(q * PI / 2): exact at whole quarter turns, linear between them.
sin_turns(q) ==
    LET k == q \div One
        a == sin_quarter(k)
        b == sin_quarter(k + 1)
    IN  a + mul(b - a, q % One)

\* 2^k for a whole k.
RECURSIVE exp2_whole(_)
exp2_whole(k) ==
    IF k = 0 THEN One
    ELSE IF k < 0 THEN exp2_whole(k + 1) \div 2 ELSE 2 * exp2_whole(k - 1)

\* 2.0_f32.powf(x): exact at whole exponents, linear between them.
exp2(x) ==
    LET base == exp2_whole(x \div One)
    IN  base + mul(base, x % One)

\* f32::sqrt(x) for 0 <= x <= 1, rounded down to four decimal places.
sqrt(x) ==
    100 * (CHOOSE r \in 0..(10 * 1000) :
              r * r <= 100 * x /\ (r + 1) * (r + 1) > 100 * x)

\* ease_functions::quadratic_out and the following: the closed forms of the
\* in, out and in-out families; p is the argument, f a shifted argument.
quadratic_out(v) ==
    LET p == v[2] IN Num(0 - mul(p, p - (2 * One)))

quadratic_in_out(v) ==
    LET p == v[2]
    IN  IF p < Half THEN Num(2 * mul(p, p))
        ELSE Num((0 - (2 * mul(p, p))) + (4 * p) - One)

cubic_in(v) == Num(powi(v[2], 3))

cubic_out(v) == Num(powi(v[2] - One, 3) + One)

cubic_in_out(v) ==
    LET p == v[2]
    IN  IF p < Half THEN Num(4 * powi(p, 3))
        ELSE Num((powi((2 * p) - (2 * One), 3) \div 2) + One)

quartic_in(v) == Num(powi(v[2], 4))

quartic_out(v) ==
    LET p == v[2] IN Num(mul(powi(p - One, 3), One - p) + One)

quartic_in_out(v) ==
    LET p == v[2]
    IN  IF p < Half THEN Num(8 * powi(p, 4))
        ELSE Num((0 - (8 * powi(p - One, 4))) + One)

quintic_in(v) == Num(powi(v[2], 5))

quintic_out(v) == Num(powi(v[2] - One, 5) + One)

quintic_in_out(v) ==
    LET p == v[2]
    IN  IF p < Half THEN Num(16 * powi(p, 5))
        ELSE Num((powi((2 * p) - (2 * One), 5) \div 2) + One)

sine_in(v) == Num(sin_turns(v[2] - One) + One)

sine_out(v) == Num(sin_turns(v[2]))

sine_in_out(v) == Num((One - sin_turns((2 * v[2]) + One)) \div 2)

circular_in(v) == Num(One - sqrt(One - mul(v[2], v[2])))

circular_out(v) == Num(sqrt(mul((2 * One) - v[2], v[2])))

circular_in_out(v) ==
    LET p == v[2]
    IN  IF p < Half THEN Num((One - sqrt(One - (4 * mul(p, p)))) \div 2)
        ELSE Num((sqrt(0 - mul((2 * p) - (3 * One), (2 * p) - One)) + One)
                     \div 2)

exponential_in(v) ==
    IF v[2] <= 0 THEN Num(0) ELSE Num(exp2(10 * (v[2] - One)))

exponential_out(v) ==
    IF v[2] >= One THEN Num(One) ELSE Num(One - exp2(0 - (10 * v[2])))

exponential_in_out(v) ==
    LET p == v[2]
    IN  IF p <= 0 THEN Num(0)
        ELSE IF p >= One THEN Num(One)
        ELSE IF p < Half THEN Num(exp2((20 * p) - (10 * One)) \div 2)
        ELSE Num((0 - (exp2((10 * One) - (20 * p)) \div 2)) + One)

elastic_in(v) ==
    LET p == v[2] IN Num(mul(sin_turns(13 * p), exp2(10 * (p - One))))

elastic_out(v) ==
    LET p == v[2]
    IN  Num(mul(sin_turns(0 - (13 * (p + One))), exp2(0 - (10 * p))) + One)

elastic_in_out(v) ==
    LET p == v[2]
    IN  IF p < Half
        THEN Num(mul(sin_turns(13 * (2 * p)),
                     exp2(10 * ((2 * p) - One))) \div 2)
        ELSE Num((mul(sin_turns(0 - (13 * (2 * p))),
                      exp2(0 - (10 * ((2 * p) - One)))) + (2 * One)) \div 2)

\* f * f * f - f * sin(f * PI), the overshooting cubic of the back family.
back_cubic(f) == powi(f, 3) - mul(f, sin_turns(2 * f))

back_in(v) == Num(back_cubic(v[2]))

back_out(v) == Num(One - back_cubic(One - v[2]))

back_in_out(v) ==
    LET p == v[2]
    IN  IF p < Half THEN Num(back_cubic(2 * p) \div 2)
        ELSE Num(((One - back_cubic((2 * One) - (2 * p))) \div 2) + Half)

bounce_out(v) ==
    LET p == v[2]
        q == mul(p, p)
    IN  IF 11 * p < 4 * One THEN Num((121 * q) \div 16)
        ELSE IF 11 * p < 8 * One
        THEN Num(((363 * q) \div 40) - ((99 * p) \div 10) + ((17 * One) \div 5))
        ELSE IF 10 * p < 9 * One
        THEN Num((12 * q) + ((24 * q) \div 361)
                 - ((19 * p) + ((1147 * p) \div 1805))
                 + ((8 * One) + ((1621 * One) \div 1805)))
        ELSE Num(((54 * q) \div 5) - ((513 * p) \div 25)
                 + ((268 * One) \div 25))

bounce_in(v) == Num(One - bounce_out(Num(One - v[2]))[2])

bounce_in_out(v) ==
    LET p == v[2]
    IN  IF p < Half THEN Num(bounce_in(Num(2 * p))[2] \div 2)
        ELSE Num((bounce_out(Num((2 * p) - One))[2] \div 2) + Half)

\* The variants of the enum EaseFunction.
EaseFunctionVariants ==
    {"Linear",
     "QuadraticIn", "QuadraticOut", "QuadraticInOut",
     "CubicIn", "CubicOut", "CubicInOut",
     "QuarticIn", "QuarticOut", "QuarticInOut",
     "QuinticIn", "QuinticOut", "QuinticInOut",
     "SineIn", "SineOut", "SineInOut",
     "CircularIn", "CircularOut", "CircularInOut",
     "ExponentialIn", "ExponentialOut", "ExponentialInOut",
     "ElasticIn", "ElasticOut", "ElasticInOut",
     "BackIn", "BackOut", "BackInOut",
     "BounceIn", "BounceOut", "BounceInOut"}

\* The match of EaseFunction::sample: one arm per variant, each calling the
\* function of ease_functions of the same name.
EaseFunction_match(f, v) ==
    CASE f = "Linear" -> linear(v)
      [] f = "QuadraticIn" -> quadratic_in(v)
      [] f = "QuadraticOut" -> quadratic_out(v)
      [] f = "QuadraticInOut" -> quadratic_in_out(v)
      [] f = "CubicIn" -> cubic_in(v)
      [] f = "CubicOut" -> cubic_out(v)
      [] f = "CubicInOut" -> cubic_in_out(v)
      [] f = "QuarticIn" -> quartic_in(v)
      [] f = "QuarticOut" -> quartic_out(v)
      [] f = "QuarticInOut" -> quartic_in_out(v)
      [] f = "QuinticIn" -> quintic_in(v)
      [] f = "QuinticOut" -> quintic_out(v)
      [] f = "QuinticInOut" -> quintic_in_out(v)
      [] f = "SineIn" -> sine_in(v)
      [] f = "SineOut" -> sine_out(v)
      [] f = "SineInOut" -> sine_in_out(v)
      [] f = "CircularIn" -> circular_in(v)
      [] f = "CircularOut" -> circular_out(v)
      [] f = "CircularInOut" -> circular_in_out(v)
      [] f = "ExponentialIn" -> exponential_in(v)
      [] f = "ExponentialOut" -> exponential_out(v)
      [] f = "ExponentialInOut" -> exponential_in_out(v)
      [] f = "ElasticIn" -> elastic_in(v)
      [] f = "ElasticOut" -> elastic_out(v)
      [] f = "ElasticInOut" -> elastic_in_out(v)
      [] f = "BackIn" -> back_in(v)
      [] f = "BackOut" -> back_out(v)
      [] f = "BackInOut" -> back_in_out(v)
      [] f = "BounceIn" -> bounce_in(v)
      [] f = "BounceOut" -> bounce_out(v)
      [] f = "BounceInOut" -> bounce_in_out(v)

\* The arm BounceIn would call bounce_out on the mirrored argument and not
\* mirror the result.
EaseFunction_sample_bounce_slip(f, v) ==
    IF f = "BounceIn"
    THEN bounce_out(Num(One - v[2]))
    ELSE EaseFunction_match(f, v)

\* EaseFunction::sample(&self, v).
EaseFunction_sample(f, v) == EaseFunction_match(f, v)

\* <EaseClosure as Interpolation>::sample: self.0(v), whatever the user's
\* closure returns ("nan": always NaN, "double": 2 * v, above 1 for v > 0.5).
EaseClosure_sample(c, v) ==
    CASE c = "nan" -> NaN
      [] c = "double" -> Num(2 * v[2])

\* The component I of a unit and Interpolation::sample on it.
Curve(I, u) == IF I = "EaseFunction" THEN easeFn[u] ELSE easeCl[u]

Interpolation_sample(I, u, v) ==
    IF I = "EaseFunction"
    THEN EaseFunction_sample(easeFn[u], v)
    ELSE EaseClosure_sample(easeCl[u], v)

\* -------------------------------------------------------------- the sampler
\* Changed<I> or Changed<TweenProgress> for sampler I (an added component
\* counts as changed).
IsChanged(I, u) == u \in chgI[I] \/ u \in chgP[I]

\* The query without its Or<(Changed<I>, Changed<TweenProgress>)> filter.
QueryMatch_unfiltered(I) ==
    {u \in Units : /\ alive[u]
                   /\ Curve(I, u) # "None"
                   /\ progress[u] # None}

\* Query<(Entity, &I, &TweenProgress), Or<(Changed<I>, Changed<TweenProgress>)>>
QueryMatch(I) ==
    {u \in Units : /\ alive[u]
                   /\ Curve(I, u) # "None"
                   /\ progress[u] # None
                   /\ IsChanged(I, u)}

\* The orders in which a query may yield the units of S.
Orders(S) ==
    {o \in [1..Cardinality(S) -> S] : \A i, j \in 1..Cardinality(S) :
                                         i # j => o[i] # o[j]}

\* The loop with a NaN Progress ending the whole pass instead of one item.
RECURSIVE query_for_each_abort(_, _, _)
query_for_each_abort(I, ents, acc) ==
    IF ents = <<>> THEN acc
    ELSE LET entity == Head(ents)
             now == progress[entity]
         IN  IF is_nan(now)
             THEN acc
             ELSE LET arg == clamp01(now)
                      val == Interpolation_sample(I, entity, arg)
                  IN  query_for_each_abort(I, Tail(ents),
                        [cmds |-> Append(acc.cmds, <<"insert", entity, val>>),
                         calls |-> Append(acc.calls, <<entity, arg, val>>)])

\* The loop without the is_nan check: a NaN Progress is stored as NaN.
RECURSIVE query_for_each_unchecked(_, _, _)
query_for_each_unchecked(I, ents, acc) ==
    IF ents = <<>> THEN acc
    ELSE LET entity == Head(ents)
             now == progress[entity]
             arg == IF is_nan(now) THEN NaN ELSE clamp01(now)
             val == IF is_nan(now) THEN NaN
                    ELSE Interpolation_sample(I, entity, arg)
         IN  query_for_each_unchecked(I, Tail(ents),
               [cmds |-> Append(acc.cmds, <<"insert", entity, val>>),
                calls |-> Append(acc.calls, <<entity, arg, val>>)])

\* The loop dropping a curve result that is NaN or outside [0, 1].
RECURSIVE query_for_each_validating(_, _, _)
query_for_each_validating(I, ents, acc) ==
    IF ents = <<>> THEN acc
    ELSE LET entity == Head(ents)
             now == progress[entity]
         IN  IF is_nan(now)
             THEN query_for_each_validating(I, Tail(ents), acc)
             ELSE LET arg == clamp01(now)
                      val == Interpolation_sample(I, entity, arg)
                  IN  IF is_nan(val) \/ val[2] < 0 \/ val[2] > One
                      THEN query_for_each_validating(I, Tail(ents),
                             [cmds |-> acc.cmds,
                              calls |-> Append(acc.calls, <<entity, arg, val>>)])
                      ELSE query_for_each_validating(I, Tail(ents),
                             [cmds |-> Append(acc.cmds, <<"insert", entity, val>>),
                              calls |-> Append(acc.calls, <<entity, arg, val>>)])

\* query.iter().for_each(|(entity, interpolator, progress)| ...) over the
\* units in the order ents: the commands queued and the curve calls made.
RECURSIVE query_for_each(_, _, _)
query_for_each(I, ents, acc) ==
    IF ents = <<>> THEN acc
    ELSE LET entity == Head(ents)
             now == progress[entity]
         IN  IF is_nan(now)
             THEN query_for_each(I, Tail(ents), acc)
             ELSE LET arg == clamp01(now)
                      val == Interpolation_sample(I, entity, arg)
                  IN  query_for_each(I, Tail(ents),
                        [cmds |-> Append(acc.cmds, <<"insert", entity, val>>),
                         calls |-> Append(acc.calls, <<entity, arg, val>>)])

\* The removed entities are read and nothing is queued for them.
removed_for_each_nothing(events, cmds) == cmds

\* A remove command is queued for every removed entity, despawned or not.
RECURSIVE removed_for_each_unguarded(_, _)
removed_for_each_unguarded(events, cmds) ==
    IF events = <<>> THEN cmds
    ELSE removed_for_each_unguarded(Tail(events),
                                    Append(cmds, <<"remove", Head(events), None>>))

\* removed.read().for_each(|entity| ...): a remove command for every removed
\* entity that commands.get_entity still finds.
RECURSIVE removed_for_each(_, _)
removed_for_each(events, cmds) ==
    IF events = <<>> THEN cmds
    ELSE LET entity == Head(events)
         IN  IF alive[entity]
             THEN removed_for_each(Tail(events),
                                   Append(cmds, <<"remove", entity, None>>))
             ELSE removed_for_each(Tail(events), cmds)

\* The TweenProgress would be borrowed mutably and normalised in place.
query_item_progress_clamped(u) ==
    IF is_nan(progress[u]) THEN progress[u] ELSE clamp01(progress[u])

\* The query borrows TweenProgress (and I) immutably, whatever its filter:
\* the component of a matched entity after the run is the one before it.
query_item_progress(u) == progress[u]

\* One run of sample_interpolations_system::<I> over the query order ents.
sample_interpolations_system(I, ents) ==
    LET changed == query_for_each(I, ents, [cmds |-> <<>>, calls |-> <<>>])
    IN  [cmds |-> removed_for_each(removedEv[I], changed.cmds),
         calls |-> changed.calls]

\* Applying a system's command queue to the world, in order.
RECURSIVE ApplyCommands(_, _)
ApplyCommands(cmds, w) ==
    IF cmds = <<>> THEN w
    ELSE LET c == Head(cmds)
             u == c[2]
         IN  IF ~alive[u] THEN ApplyCommands(Tail(cmds), w)
             ELSE IF c[1] = "insert"
             THEN ApplyCommands(Tail(cmds),
                    [value |-> [w.value EXCEPT ![u] = c[3]],
                     fresh |-> w.fresh \cup {u},
                     dropped |-> w.dropped])
             ELSE ApplyCommands(Tail(cmds),
                    [value |-> [w.value EXCEPT ![u] = None],
                     fresh |-> w.fresh \ {u},
                     dropped |-> IF w.value[u] # None
                                 THEN w.dropped \cup {u} ELSE w.dropped])

\* --------------------------------------------------------------- scheduling
\* The position of a set in the chain configured for the App's schedule
\* (0: the set is not configured there).
SetIndex(a, set) ==
    IF a.resource = "None" THEN 0
    ELSE LET chain == a.sets[a.resource]
             at == {i \in 1..Len(chain) : chain[i] = set}
         IN  IF at = {} THEN 0 ELSE CHOOSE i \in at : TRUE

\* configure_sets((...).chain()): set s1 is ordered before set s2.
Before(a, s1, s2) ==
    /\ SetIndex(a, s1) > 0
    /\ SetIndex(a, s2) > 0
    /\ SetIndex(a, s1) < SetIndex(a, s2)

\* The systems of the schedule named by TweenAppResource.
Scheduled(a) == {r \in a.systems : r[1] = a.resource}

SamplerOf(system) ==
    IF system = SamplerSystem("EaseFunction") THEN "EaseFunction"
    ELSE IF system = SamplerSystem("EaseClosure") THEN "EaseClosure"
    ELSE "None"

\* The system's deferred commands have been applied.
Flushed(system) ==
    IF SamplerOf(system) = "None" THEN TRUE
    ELSE queue[SamplerOf(system)] = <<>>

\* A system may start: it has not run in this tick, and every system of a set
\* ordered before its set has run and had its commands applied (the sync
\* point the schedule puts on such an edge).
Ready(r) ==
    /\ running
    /\ r \in Scheduled(app)
    /\ r[3] \notin ran
    /\ \A t \in Scheduled(app) :
          Before(app, t[2], r[2]) => t[3] \in ran /\ Flushed(t[3])

\* The sync point after a system of set s: every system not ordered after s
\* has run.
SyncPoint(set) ==
    /\ running
    /\ \A t \in Scheduled(app) : ~Before(app, set, t[2]) => t[3] \in ran


\* ------------------------------------------------------------------- states
NoUnits == [s \in Samplers |-> {}]
NoSeq == [s \in Samplers |-> <<>>]

\* A world with the two entities spawned and no component on them, outside
\* a tick.
EmptyWorld ==
    /\ running = FALSE
    /\ ran = {}
    /\ alive = [u \in Units |-> TRUE]
    /\ progress = [u \in Units |-> None]
    /\ easeFn = [u \in Units |-> "None"]
    /\ easeCl = [u \in Units |-> "None"]
    /\ value = [u \in Units |-> None]
    /\ chgP = NoUnits
    /\ chgI = NoUnits
    /\ removedEv = NoSeq
    /\ queue = NoSeq
    /\ dirty = NoUnits
    /\ calls = NoSeq
    /\ issued = NoSeq
    /\ fresh = {}
    /\ dropped = {}
    /\ lastFlushed = "None"
    /\ seen = [u \in Units |-> None]
    /\ prev = [u \in Units |-> None]
    /\ timer = [elapsed |-> 0, direction |-> "Forward", repeat |-> 0]
    /\ readEv = NoSeq
    /\ ops = 0
    /\ ticks = 0

\* The App after TweenCorePlugin::default() (schedule PostUpdate), the span
\* tween systems, the sampler plugins of `samplers` and one ApplyTween system
\* were added.
WiredApp(samplers) ==
    LET core == SpanTweenPlugin_build(
                    TweenCorePlugin_build(EmptyApp, "PostUpdate"))
        withFn == IF "EaseFunction" \in samplers
                  THEN EaseFunctionPlugin_build(core) ELSE core
        withCl == IF "EaseClosure" \in samplers
                  THEN EaseClosurePlugin_build(withFn) ELSE withFn
    IN  add_tween_systems(withCl, "component_tween_system")

\* The tween schedule is about to run for the first time, with at least one
\* sampler registered.
NoProbe == [f |-> "None", v |-> None, out |-> None]

Init ==
    /\ \E samplers \in (SUBSET Samplers) \ {{}} : app = WiredApp(samplers)
    /\ call = NoCall
    /\ probe = NoProbe
    /\ EmptyWorld

InitWiring ==
    /\ app = EmptyApp
    /\ call = NoCall
    /\ probe = NoProbe
    /\ EmptyWorld

\* The curves on their own: any variant and an argument at an end of [0, 1],
\* as the sampler hands it on after the clamp.
EndPoints == {Num(0), Num(One)}

InitCurves ==
    /\ app = EmptyApp
    /\ call = NoCall
    /\ \E f \in EaseFunctionVariants, v \in EndPoints :
          probe = [f |-> f, v |-> v, out |-> None]
    /\ EmptyWorld

\* interpolator.sample(v) on the variant probe.f.
SampleCurve ==
    /\ probe.f # "None"
    /\ probe.out = None
    /\ probe' = [probe EXCEPT !.out = EaseFunction_sample(probe.f, probe.v)]
    /\ UNCHANGED <<wiringVars, timer, worldVars, tickVars, ops, ticks>>

NextCurves == SampleCurve

SpecCurves == InitCurves /\ [][NextCurves]_vars

\* --------------------------------------------------------- wiring actions
Wire(op, result) ==
    /\ ~app.panicked
    /\ call' = CallRecord(op)
    /\ app' = result
    /\ UNCHANGED <<probe, timer, worldVars, tickVars, ops, ticks>>

BuildTweenCorePlugin ==
    \E schedule \in Schedules :
        /\ app.resource = "None"
        /\ Wire("TweenCorePlugin", TweenCorePlugin_build(app, schedule))

BuildEaseFunctionPlugin ==
    /\ ~Registered(app, SamplerSystem("EaseFunction"))
    /\ Wire("EaseFunctionPlugin", EaseFunctionPlugin_build(app))

BuildEaseClosurePlugin ==
    /\ ~Registered(app, SamplerSystem("EaseClosure"))
    /\ Wire("EaseClosurePlugin", EaseClosurePlugin_build(app))

BuildSpanTweenPlugin ==
    /\ ~Registered(app, "span_tweener_system")
    /\ Wire("SpanTweenPlugin", SpanTweenPlugin_build(app))

AddTweenSystems ==
    \E system \in ApplySystems :
        /\ ~Registered(app, system)
        /\ Wire("add_tween_systems", add_tween_systems(app, system))

\* app.add_plugins(DefaultTweenPlugins) on an App none of whose plugins was
\* built.
BuildDefaultTweenPlugins ==
    /\ app.resource = "None"
    /\ app.systems = {}
    /\ Wire("DefaultTweenPlugins", add_plugins(app, DefaultTweenPlugins_build))

NextWiring ==
    \/ BuildTweenCorePlugin
    \/ BuildEaseFunctionPlugin
    \/ BuildEaseClosurePlugin
    \/ BuildSpanTweenPlugin
    \/ AddTweenSystems
    \/ BuildDefaultTweenPlugins

SpecWiring == InitWiring /\ [][NextWiring]_vars

\* ------------------------------------------------------- world mutations
\* The samplers that exist as systems: only they hold a last-run tick and a
\* RemovedComponents reader.
Readers == {s \in Samplers : Registered(app, SamplerSystem(s))}

\* The change is visible to every sampler system.
Mark(chg, u) == [s \in Samplers |-> IF s \in Readers THEN chg[s] \cup {u}
                                    ELSE chg[s]]

Unmark(chg, u) == [s \in Samplers |-> chg[s] \ {u}]

\* A removal event for u reaches every reader.
Notify(events, u) == [s \in Samplers |-> IF s \in Readers
                                         THEN Append(events[s], u)
                                         ELSE events[s]]

\* Inserting (or overwriting) TweenProgress marks it changed for every system.
WriteProgress(u, v) ==
    /\ alive[u]
    /\ progress' = [progress EXCEPT ![u] = v]
    /\ chgP' = Mark(chgP, u)
    /\ UNCHANGED <<alive, easeFn, easeCl, value, chgI, removedEv>>

\* Removing TweenProgress sends a removal event to every reader.
DropProgress(u) ==
    /\ alive[u]
    /\ progress[u] # None
    /\ progress' = [progress EXCEPT ![u] = None]
    /\ chgP' = Unmark(chgP, u)
    /\ removedEv' = Notify(removedEv, u)
    /\ UNCHANGED <<alive, easeFn, easeCl, value, chgI>>

Mutate ==
    /\ ~running
    /\ ops < MaxOps
    /\ ops' = ops + 1
    /\ UNCHANGED <<wiringVars, probe, timer, tickVars, ticks>>

InsertProgress ==
    \E u \in Units, v \in ProgressValues : Mutate /\ WriteProgress(u, v)

RemoveProgress ==
    \E u \in Units : Mutate /\ DropProgress(u)

InsertEaseFunction ==
    \E u \in Units, f \in EaseFunctions :
        /\ Mutate
        /\ alive[u]
        /\ easeFn' = [easeFn EXCEPT ![u] = f]
        /\ chgI' = [chgI EXCEPT !["EaseFunction"] =
                        IF "EaseFunction" \in Readers THEN @ \cup {u} ELSE @]
        /\ UNCHANGED <<alive, progress, easeCl, value, chgP, removedEv>>

InsertEaseClosure ==
    \E u \in Units, c \in EaseClosures :
        /\ Mutate
        /\ alive[u]
        /\ easeCl' = [easeCl EXCEPT ![u] = c]
        /\ chgI' = [chgI EXCEPT !["EaseClosure"] =
                        IF "EaseClosure" \in Readers THEN @ \cup {u} ELSE @]
        /\ UNCHANGED <<alive, progress, easeFn, value, chgP, removedEv>>

\* Despawning an entity removes all its components; a removed TweenProgress
\* is reported to every reader.
Despawn ==
    \E u \in Units :
        /\ Mutate
        /\ alive[u]
        /\ alive' = [alive EXCEPT ![u] = FALSE]
        /\ progress' = [progress EXCEPT ![u] = None]
        /\ easeFn' = [easeFn EXCEPT ![u] = "None"]
        /\ easeCl' = [easeCl EXCEPT ![u] = "None"]
        /\ value' = [value EXCEPT ![u] = None]
        /\ chgP' = Unmark(chgP, u)
        /\ chgI' = Unmark(chgI, u)
        /\ removedEv' = IF progress[u] # None THEN Notify(removedEv, u)
                        ELSE removedEv

\* One tick of a ping-pong timer of duration 2 advanced by 1: the elapsed
\* position moves in the playback direction; at a boundary the direction
\* flips and a repeat is counted.
Timer_tick(t) ==
    LET e == IF t.direction = "Forward" THEN t.elapsed + 1 ELSE t.elapsed - 1
    IN  IF e >= 2
        THEN [elapsed |-> 2, direction |-> "Backward", repeat |-> t.repeat + 1]
        ELSE IF e <= 0
        THEN [elapsed |-> 0, direction |-> "Forward", repeat |-> t.repeat + 1]
        ELSE [t EXCEPT !.elapsed = e]

\* ------------------------------------------------------------ the schedule
BeginTick ==
    /\ ~running
    /\ ticks < MaxTicks
    /\ ticks' = ticks + 1
    /\ running' = TRUE
    /\ prev' = value
    /\ UNCHANGED <<wiringVars, probe, timer, readEv, worldVars, ran, queue, dirty, calls, issued,
                   fresh, dropped, lastFlushed, seen, ops>>

\* tick_span_tweener_system (set TickTweener): advances the timers.
RunTickTweener ==
    LET r == <<app.resource, "TickTweener", "tick_span_tweener_system">>
    IN  /\ Ready(r)
        /\ ran' = ran \cup {r[3]}
        /\ timer' = Timer_tick(timer)
        /\ UNCHANGED <<wiringVars, probe, readEv, worldVars, running, queue, dirty, calls,
                       issued, fresh, dropped, lastFlushed, seen, prev, ops,
                       ticks>>

\* span_tweener_system (set Tweener): publishes, withdraws or leaves alone
\* the TweenProgress of a unit.
RunTweener ==
    LET r == <<app.resource, "Tweener", "span_tweener_system">>
    IN  /\ Ready(r)
        /\ ran' = ran \cup {r[3]}
        /\ \/ UNCHANGED <<worldVars, ops>>
           \/ /\ ops < MaxOps
              /\ ops' = ops + 1
              /\ \E u \in Units :
                    \/ \E v \in ProgressValues : WriteProgress(u, v)
                    \/ DropProgress(u)
        /\ UNCHANGED <<wiringVars, probe, timer, readEv, running, queue, dirty, calls, issued,
                       fresh, dropped, lastFlushed, seen, prev, ticks>>

\* sample_interpolations_system::<I> (set UpdateInterpolationValue).
RunSampler ==
    \E I \in Samplers :
        LET r == <<app.resource, "UpdateInterpolationValue", SamplerSystem(I)>>
        IN  /\ Ready(r)
            /\ \E ents \in Orders(QueryMatch(I)) :
                  LET out == sample_interpolations_system(I, ents)
                  IN  /\ queue' = [queue EXCEPT ![I] = out.cmds]
                      /\ issued' = [issued EXCEPT ![I] = out.cmds]
                      /\ calls' = [calls EXCEPT ![I] = out.calls]
            /\ dirty' = [dirty EXCEPT ![I] =
                            {u \in Units : /\ alive[u]
                                           /\ Curve(I, u) # "None"
                                           /\ progress[u] # None
                                           /\ (u \in chgI[I] \/ u \in chgP[I])}]
            /\ chgP' = [chgP EXCEPT ![I] = {}]
            /\ chgI' = [chgI EXCEPT ![I] = {}]
            /\ removedEv' = [removedEv EXCEPT ![I] = <<>>]
            /\ readEv' = [readEv EXCEPT ![I] = removedEv[I]]
            /\ progress' = [u \in Units |->
                              IF u \in QueryMatch(I)
                              THEN query_item_progress(u) ELSE progress[u]]
            /\ ran' = ran \cup {r[3]}
            /\ UNCHANGED <<wiringVars, probe, timer, alive, easeFn, easeCl, value,
                           running, fresh, dropped, lastFlushed, seen, prev,
                           ops, ticks>>

\* The sync point after the set UpdateInterpolationValue: the queued commands
\* of one sampler are applied.
ApplyDeferred ==
    \E I \in Samplers :
        /\ SyncPoint("UpdateInterpolationValue")
        /\ queue[I] # <<>>
        /\ LET w == ApplyCommands(queue[I], [value |-> value, fresh |-> fresh,
                                             dropped |-> dropped])
           IN  /\ value' = w.value
               /\ fresh' = w.fresh
               /\ dropped' = w.dropped
        /\ queue' = [queue EXCEPT ![I] = <<>>]
        /\ lastFlushed' = I
        /\ UNCHANGED <<wiringVars, probe, timer, readEv, alive, progress, easeFn, easeCl, chgP, chgI,
                       removedEv, running, ran, dirty, calls, issued, seen,
                       prev, ops, ticks>>

\* An ApplyTween system reads the TweenInterpolationValue of every unit.
RunApplyTween ==
    \E system \in ApplySystems :
        LET r == <<app.resource, "ApplyTween", system>>
        IN  /\ Ready(r)
            /\ seen' = value
            /\ ran' = ran \cup {r[3]}
            /\ UNCHANGED <<wiringVars, probe, timer, readEv, worldVars, running, queue, dirty, calls,
                           issued, fresh, dropped, lastFlushed, prev, ops,
                           ticks>>

\* The schedule is over: every system ran and every command was applied.
EndTick ==
    /\ running
    /\ \A r \in Scheduled(app) : r[3] \in ran /\ Flushed(r[3])
    /\ running' = FALSE
    /\ ran' = {}
    /\ dirty' = NoUnits
    /\ calls' = NoSeq
    /\ issued' = NoSeq
    /\ fresh' = {}
    /\ dropped' = {}
    /\ lastFlushed' = "None"
    /\ seen' = [u \in Units |-> None]
    /\ prev' = [u \in Units |-> None]
    /\ readEv' = NoSeq
    /\ UNCHANGED <<wiringVars, probe, timer, worldVars, queue, ops, ticks>>

Next ==
    \/ InsertProgress
    \/ RemoveProgress
    \/ InsertEaseFunction
    \/ InsertEaseClosure
    \/ Despawn
    \/ BeginTick
    \/ RunTickTweener
    \/ RunTweener
    \/ RunSampler
    \/ ApplyDeferred
    \/ RunApplyTween
    \/ EndTick

Spec == Init /\ [][Next]_vars


\* =================================================================== claims
ApplyRan == \E system \in ApplySystems : system \in ran

SamplerRan(I) == SamplerSystem(I) \in ran

Range(q) == {q[i] : i \in 1..Len(q)}

\* The values sampler I queued for insertion on u in this tick.
Inserted(I, u) == {c[3] : c \in {d \in Range(issued[I]) : d[1] = "insert" /\ d[2] = u}}

\* Sampler I queued a removal of u's value in this tick.
RemoveIssued(I, u) == <<"remove", u, None>> \in Range(issued[I])

\* The place of each set in the documented order.
StageOf(set) ==
    CASE set = "TickTweener" -> 1
      [] set = "Tweener" -> 2
      [] set = "UpdateInterpolationValue" -> 3
      [] set = "ApplyTween" -> 4

\* C1: within a tick the sets run in the order TickTweener, Tweener,
\* UpdateInterpolationValue, ApplyTween with a barrier between them: when a
\* system has run (it processes all units in one run), every registered
\* system of every earlier set has already run.
C1_StageBarrier ==
    \A r \in Scheduled(app), t \in Scheduled(app) :
        (StageOf(t[2]) < StageOf(r[2]) /\ r[3] \in ran) => t[3] \in ran

\* C1 witness: all four stages have run in a tick in which a curve was sampled.
C1_Witness ==
    /\ ApplyRan
    /\ \A r \in Scheduled(app) : r[3] \in ran
    /\ \E I \in Samplers : calls[I] # <<>>

\* What the curve of sampler I on unit u yields for u's Progress clamped into
\* [0, 1], spelled out per curve.
ExpectedValue(I, u) ==
    LET p == progress[u][2]
        c == IF p < 0 THEN 0 ELSE IF p > One THEN One ELSE p
    IN  IF I = "EaseFunction"
        THEN (IF easeFn[u] = "Linear" THEN <<"num", c>>
              ELSE <<"num", (c \div 1000) * (c \div 1000)>>)
        ELSE (IF easeCl[u] = "nan" THEN <<"nan", 0>> ELSE <<"num", 2 * c>>)

\* C2: once the commands of a run of sampler I are applied, every unit with
\* curve I and a Progress that is not NaN, one of which changed since I last
\* ran, has the value curve.sample(clamp(now_percentage, 0, 1)).
C2_SampledValueStored ==
    \A I \in Samplers :
        lastFlushed = I =>
            \A u \in dirty[I] :
                ~is_nan(progress[u]) => value[u] = ExpectedValue(I, u)

\* C3: when an ApplyTween system runs, the commands of every sampler of this
\* tick have been applied, and for a unit resampled in this tick it reads a
\* value written in this tick (or none, when the unit's value was removed in
\* this tick), never the value the unit had when the tick began.
C3_ApplyReadsThisTick ==
    ApplyRan =>
        /\ \A I \in Readers : SamplerRan(I) /\ queue[I] = <<>>
        /\ \A u \in Units :
              (alive[u] /\ \E I \in Samplers : Inserted(I, u) # {}) =>
                  \/ /\ u \in fresh
                     /\ \E I \in Samplers : seen[u] \in Inserted(I, u)
                  \/ /\ seen[u] = None
                     /\ \E I \in Samplers : RemoveIssued(I, u)

\* C3 witness: ApplyTween read a value sampled in this tick that differs from
\* the value the unit had when the tick began.
C3_Witness ==
    /\ ApplyRan
    /\ \E u \in Units :
          /\ prev[u] # None
          /\ seen[u] # None
          /\ seen[u] # prev[u]
          /\ \E I \in Samplers : seen[u] \in Inserted(I, u)

\* C4: a unit whose TweenProgress was removed has no TweenInterpolationValue
\* when an ApplyTween system runs in the same tick, whichever curve it has.
C4_RemovedProgressDropsValue ==
    ApplyRan =>
        \A u \in Units :
            (alive[u] /\ progress[u] = None) =>
                seen[u] = None /\ value[u] = None

\* C4 witness: a unit that had a value when the tick began lost its Progress,
\* and the value was removed before ApplyTween ran.
C4_Witness ==
    /\ ApplyRan
    /\ \E u \in Units :
          /\ alive[u]
          /\ prev[u] # None
          /\ progress[u] = None
          /\ u \in dropped
          /\ seen[u] = None


\* C5 as claimed: a unit with a value when ApplyTween runs has a Progress
\* that is not NaN.
C5_ValueImpliesValidProgress ==
    ApplyRan =>
        \A u \in Units :
            seen[u] # None => progress[u] # None /\ ~is_nan(progress[u])

\* C5 as amended: a unit with a value when ApplyTween runs has a Progress;
\* while that Progress is NaN no value is written for the unit, and the value
\* it has is the one it had when the tick began.
C5_ValueImpliesProgress ==
    ApplyRan =>
        \A u \in Units :
            seen[u] # None =>
                /\ progress[u] # None
                /\ is_nan(progress[u]) =>
                      /\ u \notin fresh
                      /\ seen[u] = prev[u]
                      /\ \A I \in Samplers : Inserted(I, u) = {}

\* C5 witness: ApplyTween reads a value kept from an earlier tick on a unit
\* whose Progress is NaN and changed since the sampler last ran.
C5_Witness ==
    /\ ApplyRan
    /\ \E u \in Units :
          /\ is_nan(progress[u])
          /\ seen[u] # None
          /\ \E I \in Samplers : u \in dirty[I]

\* C6: a unit with a registered curve and a Progress that is not NaN has a
\* value when ApplyTween runs.
C6_ValidProgressHasValue ==
    ApplyRan =>
        \A u \in Units :
            ( /\ alive[u]
              /\ \E I \in Readers : Curve(I, u) # "None"
              /\ progress[u] # None
              /\ ~is_nan(progress[u]) ) => seen[u] # None

\* C7: a sampler that ran made no curve call and queued no insert for a unit
\* whose Progress and curve were both unchanged since its previous run; when
\* that holds for every sampler, the unit's value is not written in the tick
\* and is still the value the unit had when the tick began.
C7_UnchangedNotResampled ==
    /\ \A I \in Samplers : \A u \in Units :
          (SamplerRan(I) /\ u \notin dirty[I]) =>
              /\ Inserted(I, u) = {}
              /\ \A c \in Range(calls[I]) : c[1] # u
    /\ ApplyRan =>
          \A u \in Units :
              ( /\ alive[u]
                /\ progress[u] # None
                /\ \A I \in Readers : u \notin dirty[I] ) =>
                    u \notin fresh /\ value[u] = prev[u]

\* C7 witness: in the second tick ApplyTween reads the value of the first
\* tick on a unit with an unchanged valid Progress and an unchanged curve.
C7_Witness ==
    /\ ApplyRan
    /\ \E u \in Units :
          /\ alive[u]
          /\ progress[u] # None
          /\ ~is_nan(progress[u])
          /\ \E I \in Readers : Curve(I, u) # "None"
          /\ \A I \in Readers : u \notin dirty[I]
          /\ prev[u] # None
          /\ seen[u] = prev[u]


RequiresResource == {"EaseFunctionPlugin", "EaseClosurePlugin", "add_tween_systems"}

\* C8: building EaseFunctionPlugin or EaseClosurePlugin, or calling
\* add_tween_systems, on an App without TweenAppResource panics in that call
\* and registers no system; no tick has started.
C8_MissingResourcePanics ==
    (call.op \in RequiresResource /\ call.before.resource = "None") =>
        /\ app.panicked
        /\ app.systems = call.before.systems
        /\ app.resource = "None"
        /\ ~running
        /\ ticks = 0

\* C8 witness: EaseFunctionPlugin was built on an App without the resource.
C8_Witness ==
    /\ call.op = "EaseFunctionPlugin"
    /\ call.before.resource = "None"
    /\ app.panicked

\* C9: in a run of sampler I, a changed unit whose Progress is NaN gets no
\* curve call and no insert, every changed unit whose Progress is not NaN is
\* sampled and gets its insert, and the value of every unit whose Progress
\* was removed since the tick began is removed by that run.
C9_NaNSkipsOnlyThatUnit ==
    \A I \in Samplers :
        SamplerRan(I) =>
            /\ \A u \in dirty[I] :
                  IF is_nan(progress[u])
                  THEN /\ Inserted(I, u) = {}
                       /\ \A c \in Range(calls[I]) : c[1] # u
                  ELSE /\ Inserted(I, u) = {ExpectedValue(I, u)}
                       /\ \E c \in Range(calls[I]) : c[1] = u
            /\ \A u \in Units :
                  (alive[u] /\ prev[u] # None /\ progress[u] = None) =>
                      RemoveIssued(I, u)

\* C9 witness: one run met a unit with a NaN Progress and sampled another.
C9_Witness ==
    \E I \in Samplers :
        /\ SamplerRan(I)
        /\ \E u \in dirty[I], w \in dirty[I] :
              /\ is_nan(progress[u])
              /\ ~is_nan(progress[w])
              /\ Inserted(I, u) = {}
              /\ Inserted(I, w) # {}

\* What the user's closure yields for the clamped Progress of u.
ClosureResult(u) ==
    LET p == progress[u][2]
        c == IF p < 0 THEN 0 ELSE IF p > One THEN One ELSE p
    IN  IF easeCl[u] = "nan" THEN <<"nan", 0>> ELSE <<"num", 2 * c>>

\* C10: the EaseClosure sampler queues, for every changed unit whose Progress
\* is not NaN, an insert of exactly what the closure returned, NaN and values
\* above 1 included; once its commands are applied, a unit whose value was
\* written by it holds that result.
C10_ClosureResultStored ==
    SamplerRan("EaseClosure") =>
        /\ \A u \in dirty["EaseClosure"] :
              ~is_nan(progress[u]) =>
                  <<"insert", u, ClosureResult(u)>>
                      \in Range(issued["EaseClosure"])
        /\ lastFlushed = "EaseClosure" =>
              \A u \in dirty["EaseClosure"] \cap fresh :
                  value[u] = ClosureResult(u)

\* C10 witness: the closure of one unit returned NaN, which is now the unit's
\* value, and another unit was sampled and written in the same run.
C10_Witness ==
    /\ lastFlushed = "EaseClosure"
    /\ \E u \in dirty["EaseClosure"], w \in dirty["EaseClosure"] :
          /\ u # w
          /\ easeCl[u] = "nan"
          /\ value[u] = NaN
          /\ w \in fresh
          /\ value[w] = <<"num", 2 * One>>


\* C11: every curve call a sampler makes has an argument that is a number
\* (not NaN) between 0 and 1, whatever the unit's Progress is.
C11_CurveArgumentInRange ==
    \A I \in Samplers :
        \A c \in Range(calls[I]) :
            /\ c[2][1] = "num"
            /\ c[2][2] >= 0
            /\ c[2][2] <= One

\* C11 witness: in one tick a sampler met a Progress above 1 or below 0 and
\* called the curve for it, and met a NaN Progress for which it made no call.
C11_Witness ==
    \E I \in Samplers :
        /\ SamplerRan(I)
        /\ \E u \in dirty[I], w \in dirty[I] :
              /\ ~is_nan(progress[u])
              /\ (progress[u][2] > One \/ progress[u][2] < 0)
              /\ \E c \in Range(calls[I]) : c[1] = u
              /\ is_nan(progress[w])
              /\ \A c \in Range(calls[I]) : c[1] # w


\* C12: every system is registered in the schedule TweenAppResource names,
\* which is the schedule whose sets TweenCorePlugin chained (PostUpdate for
\* the default plugin): the samplers in UpdateInterpolationValue, the systems
\* given to add_tween_systems in ApplyTween.
C12_SystemsInConfiguredSchedule ==
    /\ app.resource # "None" =>
          app.sets[app.resource] = <<"TickTweener", "Tweener",
                                     "UpdateInterpolationValue", "ApplyTween">>
    /\ \A r \in app.systems :
          /\ r[1] = app.resource
          /\ (\E I \in Samplers : r[3] = SamplerSystem(I)) =>
                r[2] = "UpdateInterpolationValue"
          /\ r[3] \in ApplySystems => r[2] = "ApplyTween"
    /\ (call.op = "DefaultTweenPlugins" /\ ~app.panicked) =>
          app.resource = "PostUpdate"

\* C12 witness: a schedule other than the default is configured and holds
\* both samplers and a system given to add_tween_systems.
C12_Witness ==
    /\ app.resource = "FixedUpdate"
    /\ <<"FixedUpdate", "UpdateInterpolationValue",
         SamplerSystem("EaseFunction")>> \in app.systems
    /\ <<"FixedUpdate", "UpdateInterpolationValue",
         SamplerSystem("EaseClosure")>> \in app.systems
    /\ \E system \in ApplySystems :
          <<"FixedUpdate", "ApplyTween", system>> \in app.systems

\* C17: building DefaultTweenPlugins on an App without TweenAppResource does
\* not panic: TweenCorePlugin is built first and inserts the resource before
\* EaseFunctionPlugin and the other plugins of the group look it up.
C17_DefaultPluginsBuild ==
    call.op = "DefaultTweenPlugins" =>
        /\ call.before.resource = "None"
        /\ ~app.panicked
        /\ app.resource # "None"
        /\ Registered(app, SamplerSystem("EaseFunction"))

\* C17 witness: the default group was built on an App without the resource
\* and the EaseFunction sampler is registered.
C17_Witness ==
    /\ call.op = "DefaultTweenPlugins"
    /\ call.before.resource = "None"
    /\ Registered(app, SamplerSystem("EaseFunction"))
    /\ Registered(app, "component_tween_system")


\* C16: a removal event read for a despawned entity queues no command (no
\* command of a run targets an entity that does not exist), while every
\* other removed entity of the run gets its remove command and every other
\* changed unit with a valid Progress its insert command.
C16_DespawnedRemovalSkipped ==
    \A I \in Samplers :
        SamplerRan(I) =>
            /\ \A c \in Range(issued[I]) : alive[c[2]]
            /\ \A u \in Range(readEv[I]) : alive[u] => RemoveIssued(I, u)
            /\ \A u \in dirty[I] :
                  ~is_nan(progress[u]) => Inserted(I, u) # {}

\* C16 witness: a sampler read the removal of a despawned unit and, in the
\* same run, queued a command for the other unit.
C16_Witness ==
    \E I \in Samplers :
        /\ SamplerRan(I)
        /\ \E u \in Range(readEv[I]), w \in Units :
              /\ ~alive[u]
              /\ alive[w]
              /\ \E c \in Range(issued[I]) : c[2] = w

\* A step of the Sample stage: a sampler runs, or the commands of a sampler
\* are applied.
SampleStageStep ==
    \E I \in Samplers :
        \/ SamplerSystem(I) \in ran' /\ SamplerSystem(I) \notin ran
        \/ queue[I] # <<>> /\ queue'[I] = <<>>

\* C14: a step of the Sample stage leaves every unit's TweenProgress, curve
\* component and the timer (elapsed, direction, repeat count) as they were
\* and marks no Progress or curve as changed for any reader.
C14_SamplerWritesOnlyValue ==
    [][SampleStageStep =>
          /\ progress' = progress
          /\ easeFn' = easeFn
          /\ easeCl' = easeCl
          /\ timer' = timer
          /\ alive' = alive
          /\ \A J \in Samplers : /\ chgP'[J] \subseteq chgP[J]
                                 /\ chgI'[J] \subseteq chgI[J]]_vars

\* C14 witness: after the timer advanced, a sampler ran on a unit whose
\* Progress lies outside [0, 1] and its value was written, and the Progress
\* is still the one outside the range.
C14_Witness ==
    \E I \in Samplers, u \in Units :
        /\ SamplerRan(I)
        /\ u \in dirty[I]
        /\ progress[u] \in {Num(One + Half), Num(-Half)}
        /\ Inserted(I, u) # {}
        /\ u \in fresh
        /\ timer.elapsed > 0


\* The Sample stage of the tick is over: every registered sampler has run
\* and its commands are applied.
SampleStageOver ==
    \A J \in Readers : SamplerRan(J) /\ queue[J] = <<>>

\* C15: once the Sample stage is over, the value of a unit sampled in this
\* tick (and not removed in it) is what each sampler that sampled it computes
\* from the unit's own Progress and curve, whatever the order in which the
\* units were iterated and the samplers ran and had their commands applied,
\* also for a unit that carries both curve components.
C15_OrderIndependent ==
    SampleStageOver =>
        \A I \in Readers :
            \A u \in dirty[I] :
                (/\ ~is_nan(progress[u])
                 /\ \A J \in Readers : ~RemoveIssued(J, u)) =>
                    value[u] = ExpectedValue(I, u)


====
